---- MODULE Spec2Model ----
(***************************************************************************)
(* Model of the paper-review pipeline of src/src/paper_review:             *)
(*   - NoveltyRanker (agents/ranker.py): rank_papers, _score_paper,        *)
(*     execute;                                                            *)
(*   - FilterConfig (models/filters.py) and the two adapters' filters      *)
(*     (agents/fetcher/arxiv.py, agents/fetcher/huggingface.py);           *)
(*   - ArxivClient.download_pdf (utils/arxiv.py);                          *)
(*   - PaperReviewPipeline.run (core/pipeline.py) with the calls it makes: *)
(*     fetch_metadata_only, fetch_daily_papers, NoveltyRanker.execute,     *)
(*     process_paper and the summarizer (agents/summarizer.py);            *)
(*   - the web app's /api/fetch, its background run and /api/status        *)
(*     (web/app.py).                                                       *)
(*                                                                         *)
(* Scores are held in thirds of a point (Pt(8) is the score 8.0), so that  *)
(* the mean of three sub-scores is an exact integer.                       *)
(***************************************************************************)
EXTENDS Integers, Sequences, FiniteSets, TLC

VARIABLES
    \* ---- NoveltyRanker ----
    enabled,            \* self.enabled (config novelty_filter.enabled)
    top_papers_count,   \* self.top_papers_count
    call,               \* how the ranker was entered and with which arguments
    papers,             \* the list handed to the ranker; Paper objects are mutated in place
    pc,                 \* position inside rank_papers / execute
    idx,                \* position of the scoring loop (1-based)
    calls,              \* number of llm.generate calls made for each record
    failed,             \* records whose scoring procedure failed (threw or unparsable)
    result,             \* the returned list, as positions of the input list
    \* ---- _score_paper on its own ----
    sp_resp,            \* the model's reply
    sp_score,           \* the NoveltyScore returned for it
    \* ---- FilterConfig and the adapters' filters ----
    args,               \* arguments given to FilterConfig(...)
    fc,                 \* the constructed FilterConfig, or None
    now,                \* datetime.now() during the run
    paper,              \* the record handed to _apply_filters
    fpc,                \* position of the filter run
    passed,             \* outcome of _apply_filters
    date_range,         \* the window returned by get_date_range, or None
    \* ---- download_pdf (utils/arxiv.py) ----
    dl_file,            \* what is on disk at each record's file path
    dl_call,            \* the download_pdf call in progress, or None
    dl_log,             \* the finished download_pdf calls, in order
    \* ---- PaperReviewPipeline.run (core/pipeline.py) ----
    process_pdfs,       \* argument of run
    raw_arxiv,          \* what arxiv_client.fetch_recent_papers returns
    raw_hf,             \* what the listing endpoint does: a failure or a body
    stage,              \* position inside run
    all_papers,         \* merged fetch result, as fetched
    arxiv_papers,       \* the repository partition (objects mutated in place)
    hf_papers,          \* the listing partition
    ranked_arxiv,       \* the ranked repository records, as positions of arxiv_papers
    step,               \* position of the processing / summarizing loop (1-based)
    trace,              \* the calls run has made to its collaborators, in order
    summaries,          \* the PaperSummary list built so far
    report,             \* the SummaryReport returned by run, or None
    \* ---- the web app (web/app.py) ----
    is_running,         \* the global flag
    latest_report,      \* the global report, or None
    tasks,              \* the background run of each accepted /api/fetch, in order
    web_log,            \* the requests handled and the runs ended, in order
    status              \* the last reply of /api/status, or None

rankVars   == <<enabled, top_papers_count, call, papers, pc, idx, calls, failed, result>>
scoreVars  == <<sp_resp, sp_score>>
filterVars == <<args, fc, now, paper, fpc, passed, date_range>>
downloadVars == <<dl_file, dl_call, dl_log>>
pipeVars   == <<process_pdfs, raw_arxiv, raw_hf, stage, all_papers, arxiv_papers,
                hf_papers, ranked_arxiv, step, trace, summaries, report>>
webVars    == <<is_running, latest_report, tasks, web_log, status>>
vars       == <<rankVars, scoreVars, filterVars, downloadVars, pipeVars, webVars>>

-----------------------------------------------------------------------------
(* Bounds *)

MaxPapers   == 3    \* length of the list handed to the ranker
MaxTopN     == 3    \* top_n and top_papers_count
MaxCriteria == 2    \* length of a category / keyword list
MaxDay      == 2    \* calendar days 0..MaxDay
MaxDaysBack == 2    \* days_back
MaxUpvotes  == 1    \* upvotes and hf_min_upvotes
TicksPerDay == 3    \* instants told apart within one day

-----------------------------------------------------------------------------
(* Values *)

None == [none |-> TRUE]

Three   == 3    \* divisor of the mean
Neutral == 5    \* default of a missing field, and the failure score

Pt(x) == x * Three

Sources == {"arxiv", "huggingface"}

\* A field of the parsed JSON object: absent, a number, or something that is
\* not a number (string, null, list).
Missing   == [t |-> "missing", v |-> 0]
NonNum    == [t |-> "other", v |-> 0]
Num(x)    == [t |-> "num", v |-> x]

NoveltyValues == {Missing, NonNum, Num(0), Num(8), Num(11)}
ImpactValues  == {Missing, Num(8)}
ClarityValues == {Missing, Num(2)}
TotalValues   == {Missing, Num(10)}
ReasoningValues == {"missing", "str", "other"}
Wrappings     == {"plain", "json_fence", "fence"}

\* What llm.generate can do: raise, or return text whose payload is not JSON,
\* is JSON but not an object, or is a JSON object.
Responses ==
    {[kind |-> k, wrap |-> "plain", novelty |-> Missing, impact |-> Missing,
      clarity |-> Missing, total |-> Missing, reasoning |-> "missing"] :
        k \in {"raise", "unparsable", "nonobject"}}
    \cup
    [kind : {"object"}, wrap : Wrappings, novelty : NoveltyValues,
     impact : ImpactValues, clarity : ClarityValues, total : TotalValues,
     reasoning : ReasoningValues]

\* The replies drawn inside a ranking pass: every kind of reply, with the
\* clarity field absent and the reasoning absent or ill-typed.
RankResponses ==
    {r \in Responses : r.clarity = Missing /\ r.reasoning # "str"}

-----------------------------------------------------------------------------
(* NoveltyScore and _score_paper *)

\* NoveltyScore(...): pydantic checks the types of the fields only.
NoveltyScore(total_score, novelty, impact, clarity, reasoning) ==
    [total_score |-> total_score, novelty |-> novelty, impact |-> impact,
     clarity |-> clarity, reasoning |-> reasoning]

\* A failure score that is not the neutral one.
ErrorScore_Zero ==
    NoveltyScore(0, 0, 0, 0, "Error")

\* The except branch of _score_paper.
ErrorScore ==
    NoveltyScore(Pt(Neutral), Pt(Neutral), Pt(Neutral), Pt(Neutral), "Error")

\* The except branch of rank_papers.
ScoringFailedScore ==
    NoveltyScore(Pt(Neutral), Pt(Neutral), Pt(Neutral), Pt(Neutral), "Scoring failed")

\* A lookup whose default is 0.
Get_Zero(field) == IF field.t = "missing" THEN Num(0) ELSE field

\* scores.get(key, 5.0)
Get(field) == IF field.t = "missing" THEN Num(Neutral) ELSE field

\* result_text after the fence stripping: "```json" and "```" fences are
\* removed and the payload is what is parsed.
StripFence(r) == [r EXCEPT !.wrap = "plain"]

\* Whether the try block of _score_paper raises.
ScoreRaises(r) ==
    LET s == StripFence(r) IN
    \/ s.kind # "object"                      \* generate / json.loads / .get raise
    \/ Get(s.novelty).t # "num"               \* TypeError in the sum
    \/ Get(s.impact).t # "num"
    \/ Get(s.clarity).t # "num"
    \/ s.reasoning = "other"                  \* ValidationError of NoveltyScore

\* _score_paper trusting a total supplied by the model.
_score_paper_TrustTotal(r) ==
    IF ScoreRaises(r) THEN ErrorScore
    ELSE LET s == StripFence(r)
             mean == (Pt(Get(s.novelty).v) + Pt(Get(s.impact).v)
                      + Pt(Get(s.clarity).v)) \div Three
             total_score == IF s.total.t = "num" THEN Pt(s.total.v) ELSE mean
         IN NoveltyScore(total_score, Pt(Get(s.novelty).v), Pt(Get(s.impact).v),
                         Pt(Get(s.clarity).v),
                         IF s.reasoning = "missing" THEN "" ELSE "text")

_score_paper(r) ==
    IF ScoreRaises(r) THEN ErrorScore
    ELSE LET s == StripFence(r)
             total_score == (Pt(Get(s.novelty).v) + Pt(Get(s.impact).v)
                             + Pt(Get(s.clarity).v)) \div Three
         IN NoveltyScore(total_score, Pt(Get(s.novelty).v), Pt(Get(s.impact).v),
                         Pt(Get(s.clarity).v),
                         IF s.reasoning = "missing" THEN "" ELSE "text")

-----------------------------------------------------------------------------
(* rank_papers *)

\* The score the loop body attaches for a reply: _score_paper's return value,
\* or the neutral score of the except branch if the call raised.  The try
\* block of _score_paper spans the request, the parsing and the construction,
\* so the call itself never raises.
Raised == [raised |-> TRUE]

AttachedScore(r) ==
    LET score == _score_paper(r)
    IN IF score = Raised THEN ScoringFailedScore ELSE score

Paper(source) == [source |-> source, novelty_score |-> None]

\* n = top_n or self.top_papers_count   (top_n = 0 stands for None and 0)
N == IF call.top_n # 0 THEN call.top_n ELSE top_papers_count

RECURSIVE InsertDesc_Unstable(_, _, _)
\* Insertion that puts p before the elements of equal key.
InsertDesc_Unstable(s, p, key) ==
    IF s = <<>> THEN <<p>>
    ELSE IF key[Head(s)] > key[p]
         THEN <<Head(s)>> \o InsertDesc_Unstable(Tail(s), p, key)
         ELSE <<p>> \o s

RECURSIVE InsertDesc(_, _, _)
\* Insert position p into the sequence s, sorted by descending key, after
\* every element whose key is >= key[p].
InsertDesc(s, p, key) ==
    IF s = <<>> THEN <<p>>
    ELSE IF key[Head(s)] >= key[p] THEN <<Head(s)>> \o InsertDesc(Tail(s), p, key)
         ELSE <<p>> \o s

RECURSIVE SortedDesc(_, _)
\* sorted(s, key=..., reverse=True): stable, descending.
SortedDesc(s, key) ==
    IF s = <<>> THEN <<>>
    ELSE InsertDesc(SortedDesc(SubSeq(s, 1, Len(s) - 1), key), s[Len(s)], key)

Positions(ps) == [k \in 1..Len(ps) |-> k]

\* A selection that also drops the records whose scoring failed.
ScoredPapers_DropFailed(ps) ==
    SelectSeq(Positions(ps), LAMBDA k : /\ ps[k].novelty_score # None
                                        /\ ps[k].novelty_score.reasoning = "")

\* scored_papers = [p for p in papers if p.novelty_score is not None]
ScoredPapers(ps) == SelectSeq(Positions(ps), LAMBDA k : ps[k].novelty_score # None)

TotalKey(ps) ==
    [k \in 1..Len(ps) |->
        IF ps[k].novelty_score = None THEN 0 ELSE ps[k].novelty_score.total_score]

\* The sorted list without the truncation.
TopPapers_NoTruncate(ps, n) == SortedDesc(ScoredPapers(ps), TotalKey(ps))

\* sorted_papers[:n]
TopPapers(ps, n) ==
    LET sorted_papers == SortedDesc(ScoredPapers(ps), TotalKey(ps))
    IN SubSeq(sorted_papers, 1, IF n < Len(sorted_papers) THEN n ELSE Len(sorted_papers))

PaperLists == UNION {[1..k -> {Paper(s) : s \in Sources}] : k \in 0..MaxPapers}

Calls ==
    {[via |-> "rank_papers", top_n |-> t, novelty_enabled |-> TRUE] : t \in 0..MaxTopN}
    \cup
    {[via |-> "execute", top_n |-> t, novelty_enabled |-> e] :
        t \in 1..MaxTopN, e \in BOOLEAN}

RankInit ==
    /\ enabled \in BOOLEAN
    /\ top_papers_count \in 1..MaxTopN
    /\ call \in Calls
    /\ papers \in PaperLists
    /\ pc = "start"
    /\ idx = 0
    /\ calls = [k \in 1..Len(papers) |-> 0]
    /\ failed = {}
    /\ result = <<>>

\* execute: if not filter_config.novelty_enabled: return papers
ExecuteDisabled ==
    /\ pc = "start"
    /\ call.via = "execute"
    /\ ~call.novelty_enabled
    /\ result' = Positions(papers)
    /\ pc' = "done"
    /\ UNCHANGED <<enabled, top_papers_count, call, papers, idx, calls, failed>>
    /\ UNCHANGED <<scoreVars, filterVars, downloadVars, pipeVars, webVars>>

Entered == pc = "start" /\ (call.via = "execute" => call.novelty_enabled)

\* rank_papers: if not self.enabled: return papers
ReturnDisabled ==
    /\ Entered
    /\ ~enabled
    /\ result' = Positions(papers)
    /\ pc' = "done"
    /\ UNCHANGED <<enabled, top_papers_count, call, papers, idx, calls, failed>>
    /\ UNCHANGED <<scoreVars, filterVars, downloadVars, pipeVars, webVars>>

\* rank_papers: if len(papers) <= n: return papers
ReturnNoFiltering ==
    /\ Entered
    /\ enabled
    /\ Len(papers) <= N
    /\ result' = Positions(papers)
    /\ pc' = "done"
    /\ UNCHANGED <<enabled, top_papers_count, call, papers, idx, calls, failed>>
    /\ UNCHANGED <<scoreVars, filterVars, downloadVars, pipeVars, webVars>>

\* The scoring loop entered also when len(papers) == n.
StartScoring_AtLimit ==
    /\ Entered
    /\ enabled
    /\ Len(papers) >= N
    /\ pc' = "scoring"
    /\ idx' = 1
    /\ UNCHANGED <<enabled, top_papers_count, call, papers, calls, failed, result>>
    /\ UNCHANGED <<scoreVars, filterVars, downloadVars, pipeVars, webVars>>

\* rank_papers reaches the scoring loop
StartScoring ==
    /\ Entered
    /\ enabled
    /\ Len(papers) > N
    /\ pc' = "scoring"
    /\ idx' = 1
    /\ UNCHANGED <<enabled, top_papers_count, call, papers, calls, failed, result>>
    /\ UNCHANGED <<scoreVars, filterVars, downloadVars, pipeVars, webVars>>

\* What one scoring call of the loop can come to: the score attached to the
\* record, and whether the scoring procedure failed.
RankOutcomes ==
    {[score |-> AttachedScore(r), raises |-> ScoreRaises(r)] : r \in RankResponses}

\* A loop that a failed scoring ends: the records after it are not scored.
ScoreArxivPaper_AbortOnFailure ==
    /\ pc = "scoring"
    /\ idx <= Len(papers)
    /\ papers[idx].source = "arxiv"
    /\ \E o \in RankOutcomes :
          /\ papers' = [papers EXCEPT ![idx].novelty_score = o.score]
          /\ failed' = IF o.raises THEN failed \cup {idx} ELSE failed \ {idx}
          /\ idx' = IF o.raises THEN Len(papers) + 1 ELSE idx + 1
    /\ calls' = [calls EXCEPT ![idx] = @ + 1]
    /\ UNCHANGED <<enabled, top_papers_count, call, pc, result>>
    /\ UNCHANGED <<scoreVars, filterVars, downloadVars, pipeVars, webVars>>

\* A loop body that leaves a record without a score when its scoring failed.
ScoreArxivPaper_SkipFailed ==
    /\ pc = "scoring"
    /\ idx <= Len(papers)
    /\ papers[idx].source = "arxiv"
    /\ \E o \in RankOutcomes :
          /\ papers' = IF o.raises THEN papers
                       ELSE [papers EXCEPT ![idx].novelty_score = o.score]
          /\ failed' = IF o.raises THEN failed \cup {idx} ELSE failed \ {idx}
    /\ calls' = [calls EXCEPT ![idx] = @ + 1]
    /\ idx' = idx + 1
    /\ UNCHANGED <<enabled, top_papers_count, call, pc, result>>
    /\ UNCHANGED <<scoreVars, filterVars, downloadVars, pipeVars, webVars>>

\* one iteration of the loop for a record with source == "arxiv"
ScoreArxivPaper ==
    /\ pc = "scoring"
    /\ idx <= Len(papers)
    /\ papers[idx].source = "arxiv"
    /\ \E o \in RankOutcomes :
          /\ papers' = [papers EXCEPT ![idx].novelty_score = o.score]
          /\ failed' = IF o.raises THEN failed \cup {idx} ELSE failed \ {idx}
    /\ calls' = [calls EXCEPT ![idx] = @ + 1]
    /\ idx' = idx + 1
    /\ UNCHANGED <<enabled, top_papers_count, call, pc, result>>
    /\ UNCHANGED <<scoreVars, filterVars, downloadVars, pipeVars, webVars>>

\* one iteration of the loop for a record of another source: nothing is done
SkipOtherSource ==
    /\ pc = "scoring"
    /\ idx <= Len(papers)
    /\ papers[idx].source # "arxiv"
    /\ idx' = idx + 1
    /\ UNCHANGED <<enabled, top_papers_count, call, papers, pc, calls, failed, result>>
    /\ UNCHANGED <<scoreVars, filterVars, downloadVars, pipeVars, webVars>>

\* A sort step that may run before the loop has visited every record.
SortAndSelect_Early ==
    /\ pc = "scoring"
    /\ result' = TopPapers(papers, N)
    /\ pc' = "done"
    /\ UNCHANGED <<enabled, top_papers_count, call, papers, idx, calls, failed>>
    /\ UNCHANGED <<scoreVars, filterVars, downloadVars, pipeVars, webVars>>

\* after the loop: filter the scored records, sort, truncate, return
SortAndSelect ==
    /\ pc = "scoring"
    /\ idx > Len(papers)
    /\ result' = TopPapers(papers, N)
    /\ pc' = "done"
    /\ UNCHANGED <<enabled, top_papers_count, call, papers, idx, calls, failed>>
    /\ UNCHANGED <<scoreVars, filterVars, downloadVars, pipeVars, webVars>>

RankNext ==
    \/ ExecuteDisabled
    \/ ReturnDisabled
    \/ ReturnNoFiltering
    \/ StartScoring
    \/ ScoreArxivPaper
    \/ SkipOtherSource
    \/ SortAndSelect

\* The records of the returned list.
Returned == [j \in 1..Len(result) |-> papers[result[j]]]

\* A direct rank_papers call, to be followed by a second one.
RerankInit == RankInit /\ call.via = "rank_papers"

\* rank_papers(returned, top_n): the caller hands the list it got back to the
\* same ranker with the same top_n.
RankAgain ==
    /\ pc = "done"
    /\ call.via = "rank_papers"
    /\ call' = [call EXCEPT !.via = "rank_papers_again"]
    /\ papers' = Returned
    /\ pc' = "start"
    /\ idx' = 0
    /\ calls' = [k \in 1..Len(result) |-> 0]
    /\ failed' = {}
    /\ result' = <<>>
    /\ UNCHANGED <<enabled, top_papers_count>>
    /\ UNCHANGED <<scoreVars, filterVars, downloadVars, pipeVars, webVars>>

RerankNext ==
    \/ ReturnDisabled
    \/ ReturnNoFiltering
    \/ StartScoring
    \/ ScoreArxivPaper
    \/ SkipOtherSource
    \/ SortAndSelect
    \/ RankAgain

-----------------------------------------------------------------------------
(* _score_paper on its own *)

ScoreIdle == sp_resp = None /\ sp_score = None

ScoreInit == sp_resp \in Responses /\ sp_score = None

ScorePaper ==
    /\ sp_resp # None
    /\ sp_score = None
    /\ sp_score' = _score_paper(sp_resp)
    /\ UNCHANGED <<sp_resp, rankVars, filterVars, downloadVars, pipeVars, webVars>>

-----------------------------------------------------------------------------
(* FilterConfig *)

\* An Optional date: <<>> is None, <<d>> is day d.
NoDate == <<>>
Date(d) == <<d>>

SourceNames == {"arxiv", "huggingface"}     \* Literal["arxiv", "huggingface"]
FilterModes == {"AND", "OR"}                \* Literal["AND", "OR"]

Categories == {"cs.CV", "cs.AI", "cs.LG"}
Keywords   == {"diffusion", "vision", "llm"}

SeqsUpTo(S, n) == UNION {[1..k -> S] : k \in 0..n}

\* A validator of sources that accepts the empty list.
validate_sources_AcceptAll(v) == TRUE

\* validate_sources: raises ValueError when the list is empty.
validate_sources(v) == v # <<>>

\* Whether FilterConfig(**a) passes validation: the Literal types, the ge=
\* constraints and the sources validator.
Validates(a) ==
    /\ \A k \in 1..Len(a.sources) : a.sources[k] \in SourceNames
    /\ validate_sources(a.sources)
    /\ a.days_back >= 1
    /\ a.arxiv_filter_mode \in FilterModes
    /\ a.hf_filter_mode \in FilterModes
    /\ a.hf_min_upvotes >= 0

\* A resolution that moves an explicit lower bound back by days_back.
get_date_range_DaysBackAlways(c, t) ==
    [start_date |-> IF c.date_from # NoDate
                    THEN c.date_from[1] * TicksPerDay - c.days_back * TicksPerDay
                    ELSE t - c.days_back * TicksPerDay,
     end_date   |-> IF c.date_to # NoDate
                    THEN c.date_to[1] * TicksPerDay + (TicksPerDay - 1)
                    ELSE t]

\* get_date_range: (start_date, end_date) as instants.
get_date_range(c, t) ==
    [start_date |-> IF c.date_from # NoDate
                    THEN c.date_from[1] * TicksPerDay
                    ELSE t - c.days_back * TicksPerDay,
     end_date   |-> IF c.date_to # NoDate
                    THEN c.date_to[1] * TicksPerDay + (TicksPerDay - 1)
                    ELSE t]

-----------------------------------------------------------------------------
(* _apply_filters of the two adapters *)

ToSet(s) == {s[k] : k \in 1..Len(s)}

\* date_from <= published <= date_to.  get_date_range yields naive datetimes;
\* comparing them with a timezone-aware published raises TypeError.
DateCheck(p, c, t) ==
    LET r == get_date_range(c, t)
    IN IF p.published.aware THEN "TypeError"
       ELSE IF r.start_date <= p.published.tick /\ p.published.tick <= r.end_date
            THEN "True" ELSE "False"

\* A category filter whose AND mode only asks for one common category.
Arxiv_apply_filters_AndAsOr(p, c, t) ==
    LET date == DateCheck(p, c, t)
        paper_categories == p.tags
        filter_categories == ToSet(c.arxiv_categories)
    IN IF date # "True" THEN date
       ELSE IF c.arxiv_categories # <<>>
                /\ filter_categories \cap paper_categories = {}
            THEN "False"
            ELSE "True"

\* ArxivFetcher._apply_filters
Arxiv_apply_filters(p, c, t) ==
    LET date == DateCheck(p, c, t)
        paper_categories == p.tags
        filter_categories == ToSet(c.arxiv_categories)
    IN IF date # "True" THEN date
       ELSE IF c.arxiv_categories # <<>>
            THEN IF c.arxiv_filter_mode = "AND"
                 THEN IF ~(filter_categories \subseteq paper_categories)
                      THEN "False" ELSE "True"
                 ELSE IF filter_categories \cap paper_categories = {}
                      THEN "False" ELSE "True"
            ELSE "True"

\* HuggingFaceFetcher._apply_filters
HuggingFace_apply_filters(p, c, t) ==
    LET date == DateCheck(p, c, t)
        paper_keywords == p.tags
        filter_keywords == ToSet(c.hf_keywords)
    IN IF date # "True" THEN date
       ELSE IF c.hf_min_upvotes > 0 /\ p.upvotes < c.hf_min_upvotes THEN "False"
       ELSE IF c.hf_keywords # <<>>
            THEN IF c.hf_filter_mode = "AND"
                 THEN IF ~(filter_keywords \subseteq paper_keywords)
                      THEN "False" ELSE "True"
                 ELSE IF filter_keywords \cap paper_keywords = {}
                      THEN "False" ELSE "True"
            ELSE "True"

\* Arguments of FilterConfig(...) for the runs of the filters: every category
\* or keyword list and mode for the adapter of the record, the other
\* adapter's fields at their defaults.
FilterArgs(source) ==
    {[sources |-> <<"arxiv", "huggingface">>,
      date_from |-> df, date_to |-> dt, days_back |-> 1,
      arxiv_categories |-> IF source = "arxiv" THEN cr ELSE <<>>,
      arxiv_filter_mode |-> IF source = "arxiv" THEN m ELSE "OR",
      hf_keywords |-> IF source = "arxiv" THEN <<>> ELSE cr,
      hf_filter_mode |-> IF source = "arxiv" THEN "OR" ELSE m,
      hf_min_upvotes |-> IF source = "arxiv" THEN 0 ELSE u] :
        df \in {NoDate, Date(MaxDay - 1)}, dt \in {NoDate, Date(MaxDay - 1)},
        cr \in SeqsUpTo(IF source = "arxiv" THEN Categories ELSE Keywords, MaxCriteria),
        m \in FilterModes,
        u \in IF source = "arxiv" THEN {0} ELSE 0..MaxUpvotes}

\* The records handed to _apply_filters: PaperMetadata as to_paper_metadata
\* and _parse_paper build it (tags = categories, resp. ai_keywords).
FilterPapers(source) ==
    {[source |-> source, tags |-> tg,
      published |-> [tick |-> k, aware |-> aw], upvotes |-> u] :
        tg \in SUBSET (IF source = "arxiv" THEN Categories ELSE Keywords),
        k \in {(MaxDay - 2) * TicksPerDay, (MaxDay - 1) * TicksPerDay + 1,
               MaxDay * TicksPerDay + 1},
        aw \in BOOLEAN,
        u \in IF source = "arxiv" THEN {0} ELSE 0..MaxUpvotes}

\* Arguments of FilterConfig(...) for the construction on its own.
ConfigArgs ==
    [sources : SeqsUpTo(SourceNames, 2) \cup {<<"other">>},
     date_from : {NoDate} \cup {Date(d) : d \in 0..MaxDay},
     date_to : {NoDate} \cup {Date(d) : d \in 0..MaxDay},
     days_back : 0..MaxDaysBack,
     arxiv_categories : {<<>>},
     arxiv_filter_mode : {"OR", "AND", "XOR"},
     hf_keywords : {<<>>},
     hf_filter_mode : {"OR"},
     hf_min_upvotes : {0}]

FilterInit ==
    /\ \E source \in Sources :
          /\ args \in FilterArgs(source)
          /\ paper \in FilterPapers(source)
    /\ fc = None
    /\ now = MaxDay * TicksPerDay
    /\ fpc = "new"
    /\ passed = "None"
    /\ date_range = None

ConfigInit ==
    /\ args \in ConfigArgs
    /\ paper = None
    /\ fc = None
    /\ now \in {MaxDay * TicksPerDay, MaxDay * TicksPerDay + 1}
    /\ fpc = "new"
    /\ passed = "None"
    /\ date_range = None

\* FilterConfig(**args): the object, or a ValidationError
ConstructFilterConfig ==
    /\ fpc = "new"
    /\ IF Validates(args)
       THEN fc' = args /\ fpc' = "constructed"
       ELSE fc' = None /\ fpc' = "ValidationError"
    /\ UNCHANGED <<args, now, paper, passed, date_range>>
    /\ UNCHANGED <<rankVars, scoreVars, downloadVars, pipeVars, webVars>>

\* ArxivFetcher._apply_filters(paper, filter_config)
ArxivApplyFilters ==
    /\ fpc = "constructed"
    /\ paper # None
    /\ paper.source = "arxiv"
    /\ passed' = Arxiv_apply_filters(paper, fc, now)
    /\ fpc' = "filtered"
    /\ UNCHANGED <<args, fc, now, paper, date_range>>
    /\ UNCHANGED <<rankVars, scoreVars, downloadVars, pipeVars, webVars>>

\* HuggingFaceFetcher._apply_filters(paper, filter_config)
HfApplyFilters ==
    /\ fpc = "constructed"
    /\ paper # None
    /\ paper.source = "huggingface"
    /\ passed' = HuggingFace_apply_filters(paper, fc, now)
    /\ fpc' = "filtered"
    /\ UNCHANGED <<args, fc, now, paper, date_range>>
    /\ UNCHANGED <<rankVars, scoreVars, downloadVars, pipeVars, webVars>>

\* filter_config.get_date_range() on a constructed FilterConfig
GetDateRange ==
    /\ fpc = "constructed"
    /\ paper = None
    /\ date_range' = get_date_range(fc, now)
    /\ fpc' = "resolved"
    /\ UNCHANGED <<args, fc, now, paper, passed>>
    /\ UNCHANGED <<rankVars, scoreVars, downloadVars, pipeVars, webVars>>

FilterNext ==
    \/ ConstructFilterConfig
    \/ ArxivApplyFilters
    \/ HfApplyFilters

ConfigNext ==
    \/ ConstructFilterConfig
    \/ GetDateRange

-----------------------------------------------------------------------------
(* download_pdf *)

MaxDownloadCalls == 3   \* download_pdf calls in one run of the model

PaperIds == {"2511.00001v1", "2511.00002v1"}

\* What is at a file path: nothing, the remains of an interrupted transfer,
\* or the whole document.
FileStates == {"absent", "partial", "complete"}

\* filepath = Path(download_dir) / f"{paper_id}.pdf"
FilePath(id) == [dir |-> "download_dir", name |-> id]

\* filepath.exists()
Exists(id) == dl_file[id] # "absent"

DownloadCall(id, entry, fetched, ret) ==
    [id |-> id, entry |-> entry, fetched |-> fetched, ret |-> ret]

\* The download directory outlives a run: any file may already be there.
DownloadInit ==
    /\ dl_file \in [PaperIds -> FileStates]
    /\ dl_call = None
    /\ dl_log = <<>>

\* if filepath.exists(): return str(filepath)
DownloadExisting ==
    /\ dl_call = None
    /\ Len(dl_log) < MaxDownloadCalls
    /\ \E id \in PaperIds :
          /\ Exists(id)
          /\ dl_log' = Append(dl_log, DownloadCall(id, dl_file[id], FALSE, FilePath(id)))
    /\ UNCHANGED <<dl_file, dl_call>>
    /\ UNCHANGED <<rankVars, scoreVars, filterVars, pipeVars, webVars>>

\* A download_pdf that fetches without looking at the file path first.
DownloadStart_Always ==
    /\ dl_call = None
    /\ Len(dl_log) < MaxDownloadCalls
    /\ \E id \in PaperIds :
          dl_call' = [id |-> id, entry |-> dl_file[id]]
    /\ UNCHANGED <<dl_file, dl_log>>
    /\ UNCHANGED <<rankVars, scoreVars, filterVars, pipeVars, webVars>>

\* the file is not there: paper.download_pdf(...) is invoked
DownloadStart ==
    /\ dl_call = None
    /\ Len(dl_log) < MaxDownloadCalls
    /\ \E id \in PaperIds :
          /\ ~Exists(id)
          /\ dl_call' = [id |-> id, entry |-> dl_file[id]]
    /\ UNCHANGED <<dl_file, dl_log>>
    /\ UNCHANGED <<rankVars, scoreVars, filterVars, pipeVars, webVars>>

\* the transfer ends well: return str(filepath)
DownloadComplete ==
    /\ dl_call # None
    /\ dl_file' = [dl_file EXCEPT ![dl_call.id] = "complete"]
    /\ dl_log' = Append(dl_log, DownloadCall(dl_call.id, dl_call.entry, TRUE,
                                             FilePath(dl_call.id)))
    /\ dl_call' = None
    /\ UNCHANGED <<rankVars, scoreVars, filterVars, pipeVars, webVars>>

\* the transfer fails and the exception leaves download_pdf; the library has
\* written nothing yet, or a part of the document
DownloadFails ==
    /\ dl_call # None
    /\ \E left \in {"absent", "partial"} :
          dl_file' = [dl_file EXCEPT ![dl_call.id] = left]
    /\ dl_log' = Append(dl_log, DownloadCall(dl_call.id, dl_call.entry, TRUE, Raised))
    /\ dl_call' = None
    /\ UNCHANGED <<rankVars, scoreVars, filterVars, pipeVars, webVars>>

DownloadNext ==
    \/ DownloadExisting
    \/ DownloadStart
    \/ DownloadComplete
    \/ DownloadFails

-----------------------------------------------------------------------------
(* The two adapters' fetch calls *)

MaxArxivResults == 2    \* raw records returned by the repository search
MaxHfEntries    == 2    \* entries of the listing endpoint's body

DefaultHfMaxPapers == 50    \* FilterConfig.hf_max_papers

\* Paper(metadata=...): the record of the run, told apart by its source and
\* its position in the raw batch it came from.
PipePaper(source, id) ==
    [source |-> source, id |-> id, arxiv_id |-> <<id>>, novelty_score |-> None,
     pdf_url |-> IF source = "arxiv" THEN "url" ELSE "",
     pdf_path |-> None, full_text |-> None, image_paths |-> <<>>]

\* A published instant inside the default window, naive or timezone-aware.
Published(aw) == [tick |-> MaxDay * TicksPerDay - 1, aware |-> aw]

\* A raw arxiv.Result: one that to_paper_metadata / Paper(...) reject, or an
\* accepted one with its published instant.
RawArxivResults ==
    {[conv |-> "raises", published |-> Published(FALSE)]}
    \cup
    {[conv |-> "ok", published |-> Published(aw)] : aw \in BOOLEAN}

\* to_paper_metadata, for a raw record it accepts
to_paper_metadata(r) ==
    [source |-> "arxiv", tags |-> {}, published |-> r.published, upvotes |-> 0]

\* fetch_metadata_only's loop from raw record i on, papers being the list
\* built so far.  There is no try / except in the loop: an exception of the
\* conversion or of _apply_filters leaves the call.
RECURSIVE FetchLoop(_, _, _, _, _)
FetchLoop(raws, i, acc, c, t) ==
    IF i > Len(raws) THEN [raised |-> FALSE, papers |-> acc]
    ELSE IF raws[i].conv = "raises" THEN [raised |-> TRUE, papers |-> <<>>]
    ELSE LET keep == Arxiv_apply_filters(to_paper_metadata(raws[i]), c, t)
         IN IF keep = "TypeError" THEN [raised |-> TRUE, papers |-> <<>>]
            ELSE FetchLoop(raws, i + 1,
                           IF keep = "True"
                           THEN Append(acc, PipePaper("arxiv", i)) ELSE acc,
                           c, t)

\* ArxivFetcher.fetch_metadata_only(filter_config)
fetch_metadata_only(raws, c, t) ==
    IF "arxiv" \notin ToSet(c.sources) THEN [raised |-> FALSE, papers |-> <<>>]
    ELSE FetchLoop(raws, 1, <<>>, c, t)

\* An entry of the listing body: one _parse_paper cannot build a Paper from,
\* or a well-formed one with its published instant.
HfEntries ==
    {[parse |-> "fails", published |-> Published(FALSE)]}
    \cup
    {[parse |-> "ok", published |-> Published(aw)] : aw \in BOOLEAN}

\* What the GET of the listing endpoint does: the transport fails or the
\* status is an error (httpx.HTTPError), the body is not JSON, or a body.
HfResponses ==
    {[kind |-> k, entries |-> <<>>] : k \in {"HTTPError", "bad_body"}}
    \cup
    [kind : {"ok"}, entries : SeqsUpTo(HfEntries, MaxHfEntries)]

\* The responses drawn for a run: the failures, and the bodies whose entries
\* are all well-formed.
PipeHfResponses ==
    {h \in HfResponses : \A k \in 1..Len(h.entries) : h.entries[k].parse = "ok"}

\* _parse_paper, for an entry it accepts
HfMetadata(e) ==
    [source |-> "huggingface", tags |-> {}, published |-> e.published, upvotes |-> 0]

\* fetch_daily_papers' loop; _parse_paper returns None on its own failures,
\* an exception of _apply_filters leaves the loop.
RECURSIVE HfLoop(_, _, _, _, _)
HfLoop(es, i, acc, c, t) ==
    IF i > Len(es) THEN [raised |-> FALSE, papers |-> acc]
    ELSE IF es[i].parse = "fails" THEN HfLoop(es, i + 1, acc, c, t)
    ELSE LET keep == HuggingFace_apply_filters(HfMetadata(es[i]), c, t)
         IN IF keep = "TypeError" THEN [raised |-> TRUE, papers |-> <<>>]
            ELSE HfLoop(es, i + 1,
                        IF keep = "True"
                        THEN Append(acc, PipePaper("huggingface", i)) ELSE acc,
                        c, t)

\* papers[:n]
Prefix(s, n) == SubSeq(s, 1, IF n < Len(s) THEN n ELSE Len(s))

\* A fetch_daily_papers whose failures leave the call.
fetch_daily_papers_Propagate(resp, c, t) ==
    IF "huggingface" \notin ToSet(c.sources) THEN [raised |-> FALSE, papers |-> <<>>]
    ELSE IF resp.kind # "ok" THEN [raised |-> TRUE, papers |-> <<>>]
    ELSE LET looped == HfLoop(resp.entries, 1, <<>>, c, t)
         IN IF looped.raised THEN looped
            ELSE [raised |-> FALSE, papers |-> Prefix(looped.papers, c.hf_max_papers)]

\* HuggingFaceFetcher.fetch_daily_papers(filter_config): the whole body of
\* the call is inside try, and both except branches return [].
fetch_daily_papers(resp, c, t) ==
    IF "huggingface" \notin ToSet(c.sources) THEN [raised |-> FALSE, papers |-> <<>>]
    ELSE IF resp.kind # "ok" THEN [raised |-> FALSE, papers |-> <<>>]
    ELSE LET looped == HfLoop(resp.entries, 1, <<>>, c, t)
         IN IF looped.raised THEN [raised |-> FALSE, papers |-> <<>>]
            ELSE [raised |-> FALSE, papers |-> Prefix(looped.papers, c.hf_max_papers)]

-----------------------------------------------------------------------------
(* fetch_daily_papers on its own *)

\* A published instant before the default window.
PublishedEarlier == [tick |-> 0, aware |-> FALSE]

\* The entries of a listing body: malformed, or well-formed and published
\* inside the window (naive or timezone-aware) or before it.
ListingEntries ==
    HfEntries \cup {[parse |-> "ok", published |-> PublishedEarlier]}

ListingResponses ==
    {[kind |-> k, entries |-> <<>>] : k \in {"HTTPError", "bad_body"}}
    \cup
    [kind : {"ok"}, entries : SeqsUpTo(ListingEntries, MaxHfEntries)]

\* The FilterConfig objects of a listing fetch: every choice of sources, and
\* hf_max_papers at its lower limit or at its default.
ListingConfigs ==
    {[sources |-> s, date_from |-> NoDate, date_to |-> NoDate, days_back |-> 1,
      arxiv_categories |-> <<>>, arxiv_filter_mode |-> "OR",
      hf_keywords |-> <<>>, hf_filter_mode |-> "OR", hf_min_upvotes |-> 0,
      hf_max_papers |-> n, novelty_enabled |-> TRUE, novelty_top_n |-> 1] :
        s \in {<<"arxiv">>, <<"huggingface">>, <<"arxiv", "huggingface">>},
        n \in {1, DefaultHfMaxPapers}}

ListingInit ==
    /\ args = None
    /\ paper = None
    /\ fpc = "idle"
    /\ passed = "None"
    /\ date_range = None
    /\ fc \in {c \in ListingConfigs : Validates(c)}
    /\ now = MaxDay * TicksPerDay
    /\ process_pdfs = FALSE
    /\ raw_arxiv = <<>>
    /\ raw_hf \in ListingResponses
    /\ stage = "listing"
    /\ all_papers = <<>>
    /\ arxiv_papers = <<>>
    /\ hf_papers = <<>>
    /\ ranked_arxiv = <<>>
    /\ step = 0
    /\ trace = <<>>
    /\ summaries = <<>>
    /\ report = None

\* hf_papers = await self.hf_fetcher.fetch_daily_papers(filter_config)
FetchDailyPapers ==
    /\ stage = "listing"
    /\ LET fetched == fetch_daily_papers(raw_hf, fc, now)
       IN /\ hf_papers' = fetched.papers
          /\ stage' = IF fetched.raised THEN "raised" ELSE "returned"
    /\ UNCHANGED <<process_pdfs, raw_arxiv, raw_hf, all_papers, arxiv_papers,
                   ranked_arxiv, step, trace, summaries, report>>
    /\ UNCHANGED <<rankVars, scoreVars, filterVars, downloadVars, webVars>>

ListingNext == FetchDailyPapers

-----------------------------------------------------------------------------
(* NoveltyRanker.execute, process_paper and summarize_paper as calls of run *)

MaxFailures == 1    \* process_paper and summarize_paper calls of a run that fail

\* The replies drawn inside a run: a failed request, and a usable object.
PipeResponses ==
    {r \in RankResponses :
        \/ r.kind = "raise"
        \/ /\ r.kind = "object" /\ r.wrap = "plain"
           /\ r.novelty = Num(8) /\ r.impact = Num(8)
           /\ r.total = Missing /\ r.reasoning = "missing"}

\* An execute whose rank_papers does not look at self.enabled.
RankerExecute_IgnoreEnabled(ps, c, replies) ==
    LET n == c.novelty_top_n
        scored == [k \in 1..Len(ps) |->
                     IF ps[k].source = "arxiv"
                     THEN [ps[k] EXCEPT !.novelty_score = AttachedScore(replies[k])]
                     ELSE ps[k]]
    IN IF ~c.novelty_enabled \/ Len(ps) <= n
       THEN [papers |-> ps, result |-> Positions(ps)]
       ELSE [papers |-> scored, result |-> TopPapers(scored, n)]

\* novelty_ranker.execute(arxiv_papers, filter_config), replies[k] being the
\* model's reply for record k: the scored list and the returned positions.
RankerExecute(ps, c, replies) ==
    LET n == c.novelty_top_n
        scored == [k \in 1..Len(ps) |->
                     IF ps[k].source = "arxiv"
                     THEN [ps[k] EXCEPT !.novelty_score = AttachedScore(replies[k])]
                     ELSE ps[k]]
    IN IF ~c.novelty_enabled \/ ~enabled \/ Len(ps) <= n
       THEN [papers |-> ps, result |-> Positions(ps)]
       ELSE [papers |-> scored, result |-> TopPapers(scored, n)]

\* What the steps of one process_paper call do: the id lookup raises, finds
\* nothing or finds the record; download_pdf raises or returns; extract_text
\* returns the text, or "" after its own except; extract_images raises (its
\* mkdir is outside its try), returns [] after its own except, or the images.
StepOutcome(lookup, download, text, images) ==
    [lookup |-> lookup, download |-> download, text |-> text, images |-> images]

AllSucceed == StepOutcome("found", "ok", "ok", "ok")

ProcessOutcomes ==
    {AllSucceed,
     StepOutcome("raises", "ok", "ok", "ok"),
     StepOutcome("empty", "ok", "ok", "ok"),
     StepOutcome("found", "raises", "ok", "ok"),
     StepOutcome("found", "ok", "fails", "ok"),
     StepOutcome("found", "ok", "ok", "fails"),
     StepOutcome("found", "ok", "ok", "raises")}

\* A process_paper whose except branch hands back a record without artifacts.
process_paper_Discard(p, o) ==
    IF p.arxiv_id = <<>> \/ p.pdf_url = "" \/ o.lookup = "empty" THEN p
    ELSE IF o.lookup = "raises" \/ o.download = "raises" \/ o.images = "raises"
         THEN PipePaper(p.source, p.id)
    ELSE [p EXCEPT !.pdf_path = FilePath(p.id),
                   !.full_text = IF o.text = "ok" THEN "text" ELSE "",
                   !.image_paths = IF o.images = "ok" THEN <<"image">> ELSE <<>>]

\* ArxivFetcher.process_paper(paper): the artifacts are assigned one by one
\* inside try; the except branch returns the record as it is by then.
process_paper(p, o) ==
    IF p.arxiv_id = <<>> \/ p.pdf_url = "" \/ o.lookup = "empty" THEN p
    ELSE IF o.lookup = "raises" \/ o.download = "raises" THEN p
    ELSE LET downloaded == [p EXCEPT !.pdf_path = FilePath(p.id)]
             extracted == [downloaded EXCEPT
                              !.full_text = IF o.text = "ok" THEN "text" ELSE ""]
         IN IF o.images = "raises" THEN extracted
            ELSE [extracted EXCEPT
                     !.image_paths = IF o.images = "ok" THEN <<"image">> ELSE <<>>]

\* SummarizerAgent.summarize_paper(paper): a PaperSummary in both branches.
summarize_paper(p, generated) ==
    [paper_id |-> p.id, source |-> p.source,
     summary |-> IF generated THEN "text" ELSE "Error creating summary",
     image_paths |-> p.image_paths]

\* SummaryReport(total_papers=len(summaries), arxiv_count=..., ...)
SummaryReport(ss) ==
    [total_papers |-> Len(ss),
     arxiv_count |-> Len(SelectSeq(ss, LAMBDA s : s.source = "arxiv")),
     huggingface_count |-> Len(SelectSeq(ss, LAMBDA s : s.source = "huggingface")),
     summaries |-> ss]

\* _create_empty_report()
EmptyReport ==
    [total_papers |-> 0, arxiv_count |-> 0, huggingface_count |-> 0, summaries |-> <<>>]

-----------------------------------------------------------------------------
(* PaperReviewPipeline.run *)

\* novelty_min_score: Optional[float]; <<>> is None, <<x>> is the floor x.
NoFloor == <<>>
Floor(x) == <<x>>

\* The FilterConfig objects handed to run: every choice of sources and of the
\* novelty fields, the date window and the criteria at their defaults.
PipeConfigs ==
    {[sources |-> s, date_from |-> NoDate, date_to |-> NoDate, days_back |-> 1,
      arxiv_categories |-> <<>>, arxiv_filter_mode |-> "OR",
      hf_keywords |-> <<>>, hf_filter_mode |-> "OR", hf_min_upvotes |-> 0,
      hf_max_papers |-> DefaultHfMaxPapers,
      novelty_enabled |-> e, novelty_top_n |-> n, novelty_min_score |-> f] :
        s \in {<<"arxiv">>, <<"huggingface">>, <<"arxiv", "huggingface">>},
        e \in BOOLEAN, n \in 1..MaxArxivResults, f \in {NoFloor, Floor(Pt(6))}}

Called(op, source, id, outcome) ==
    [op |-> op, source |-> source, id |-> id, outcome |-> outcome]

ArxivPartition(ps) == SelectSeq(ps, LAMBDA p : p.source = "arxiv")
HfPartition(ps) == SelectSeq(ps, LAMBDA p : p.source = "huggingface")

\* ranked_arxiv, as records
RankedArxiv == [j \in 1..Len(ranked_arxiv) |-> arxiv_papers[ranked_arxiv[j]]]

\* A selection that puts the listing records first.
SelectedPapers_HfFirst == hf_papers \o RankedArxiv

\* selected_papers = ranked_arxiv + hf_papers
SelectedPapers == RankedArxiv \o hf_papers

ProcessFailures ==
    Len(SelectSeq(trace, LAMBDA e : e.op = "process_paper" /\ e.outcome # AllSucceed))

SummaryFailures ==
    Len(SelectSeq(summaries, LAMBDA s : s.summary # "text"))

Failures == ProcessFailures + SummaryFailures

\* The pipeline's collaborators after PaperReviewPipeline(config), and the
\* arguments and the environment of one run.
PipeInit ==
    /\ enabled \in BOOLEAN
    /\ top_papers_count = 1
    /\ call = [via |-> "execute", top_n |-> 0, novelty_enabled |-> TRUE]
    /\ papers = <<>>
    /\ pc = "idle"
    /\ idx = 0
    /\ calls = <<>>
    /\ failed = {}
    /\ result = <<>>
    /\ args = None
    /\ paper = None
    /\ fpc = "idle"
    /\ passed = "None"
    /\ date_range = None
    /\ fc \in {c \in PipeConfigs : Validates(c)}
    /\ now = MaxDay * TicksPerDay
    /\ process_pdfs \in BOOLEAN
    /\ raw_arxiv \in IF "arxiv" \in ToSet(fc.sources)
                     THEN SeqsUpTo(RawArxivResults, MaxArxivResults) ELSE {<<>>}
    /\ raw_hf \in IF "huggingface" \in ToSet(fc.sources)
                  THEN PipeHfResponses ELSE {[kind |-> "ok", entries |-> <<>>]}
    /\ stage = "start"
    /\ all_papers = <<>>
    /\ arxiv_papers = <<>>
    /\ hf_papers = <<>>
    /\ ranked_arxiv = <<>>
    /\ step = 0
    /\ trace = <<>>
    /\ summaries = <<>>
    /\ report = None

\* Stage 1, repository source: all_papers.extend(fetch_metadata_only(...));
\* run has no try, so an exception of the call leaves run.
FetchArxiv ==
    /\ stage = "start"
    /\ IF "arxiv" \in ToSet(fc.sources)
       THEN LET fetched == fetch_metadata_only(raw_arxiv, fc, now)
            IN /\ trace' = Append(trace, Called("fetch_metadata_only", "arxiv", 0,
                                                 fetched.raised))
               /\ IF fetched.raised
                  THEN stage' = "raised" /\ UNCHANGED all_papers
                  ELSE stage' = "fetch_hf" /\ all_papers' = all_papers \o fetched.papers
       ELSE stage' = "fetch_hf" /\ UNCHANGED <<all_papers, trace>>
    /\ UNCHANGED <<process_pdfs, raw_arxiv, raw_hf, arxiv_papers, hf_papers,
                   ranked_arxiv, step, summaries, report>>
    /\ UNCHANGED <<rankVars, scoreVars, filterVars, downloadVars, webVars>>

\* Stage 1, listing source: all_papers.extend(await fetch_daily_papers(...))
FetchHf ==
    /\ stage = "fetch_hf"
    /\ IF "huggingface" \in ToSet(fc.sources)
       THEN LET fetched == fetch_daily_papers(raw_hf, fc, now)
            IN /\ trace' = Append(trace, Called("fetch_daily_papers", "huggingface", 0,
                                                 fetched.raised))
               /\ IF fetched.raised
                  THEN stage' = "raised" /\ UNCHANGED all_papers
                  ELSE stage' = "fetched" /\ all_papers' = all_papers \o fetched.papers
       ELSE stage' = "fetched" /\ UNCHANGED <<all_papers, trace>>
    /\ UNCHANGED <<process_pdfs, raw_arxiv, raw_hf, arxiv_papers, hf_papers,
                   ranked_arxiv, step, summaries, report>>
    /\ UNCHANGED <<rankVars, scoreVars, filterVars, downloadVars, webVars>>

\* A run that sends an empty fetch result through the later stages.
ReturnEmptyReport_ViaStages ==
    /\ stage = "fetched"
    /\ all_papers = <<>>
    /\ stage' = "selected"
    /\ step' = 1
    /\ UNCHANGED <<process_pdfs, raw_arxiv, raw_hf, all_papers, arxiv_papers, hf_papers,
                   ranked_arxiv, trace, summaries, report>>
    /\ UNCHANGED <<rankVars, scoreVars, filterVars, downloadVars, webVars>>

\* if not all_papers: return self._create_empty_report()
ReturnEmptyReport ==
    /\ stage = "fetched"
    /\ all_papers = <<>>
    /\ report' = EmptyReport
    /\ stage' = "done"
    /\ UNCHANGED <<process_pdfs, raw_arxiv, raw_hf, all_papers, arxiv_papers, hf_papers,
                   ranked_arxiv, step, trace, summaries>>
    /\ UNCHANGED <<rankVars, scoreVars, filterVars, downloadVars, webVars>>

\* Stage 2 with arxiv records and novelty_enabled: the partition, then
\* ranked_arxiv = self.novelty_ranker.execute(arxiv_papers, filter_config)
RankArxiv ==
    /\ stage = "fetched"
    /\ all_papers # <<>>
    /\ ArxivPartition(all_papers) # <<>> /\ fc.novelty_enabled
    /\ \E replies \in [1..Len(ArxivPartition(all_papers)) -> PipeResponses] :
          LET ranked == RankerExecute(ArxivPartition(all_papers), fc, replies)
          IN /\ arxiv_papers' = ranked.papers
             /\ ranked_arxiv' = ranked.result
    /\ hf_papers' = HfPartition(all_papers)
    /\ trace' = Append(trace, Called("execute", "arxiv", 0, FALSE))
    /\ stage' = "selected"
    /\ step' = 1
    /\ UNCHANGED <<process_pdfs, raw_arxiv, raw_hf, all_papers, summaries, report>>
    /\ UNCHANGED <<rankVars, scoreVars, filterVars, downloadVars, webVars>>

\* Stage 2 otherwise: ranked_arxiv = arxiv_papers
SkipRanking ==
    /\ stage = "fetched"
    /\ all_papers # <<>>
    /\ ~(ArxivPartition(all_papers) # <<>> /\ fc.novelty_enabled)
    /\ arxiv_papers' = ArxivPartition(all_papers)
    /\ ranked_arxiv' = Positions(ArxivPartition(all_papers))
    /\ hf_papers' = HfPartition(all_papers)
    /\ stage' = "selected"
    /\ step' = 1
    /\ UNCHANGED <<process_pdfs, raw_arxiv, raw_hf, all_papers, trace, summaries, report>>
    /\ UNCHANGED <<rankVars, scoreVars, filterVars, downloadVars, webVars>>

\* A loop over every repository record, ranked or dropped.
ProcessPaper_EveryRecord ==
    /\ stage = "selected"
    /\ process_pdfs
    /\ step <= Len(arxiv_papers)
    /\ \E o \in ProcessOutcomes :
          /\ o # AllSucceed => Failures < MaxFailures
          /\ arxiv_papers' = [arxiv_papers EXCEPT ![step] = process_paper(@, o)]
          /\ trace' = Append(trace, Called("process_paper", arxiv_papers[step].source,
                                           arxiv_papers[step].id, o))
    /\ step' = step + 1
    /\ UNCHANGED <<process_pdfs, raw_arxiv, raw_hf, stage, all_papers, hf_papers,
                   ranked_arxiv, summaries, report>>
    /\ UNCHANGED <<rankVars, scoreVars, filterVars, downloadVars, webVars>>

\* Stage 3: one iteration of `for paper in ranked_arxiv: process_paper(paper)`
\* (the loop is entered only if process_pdfs and ranked_arxiv)
ProcessPaper ==
    /\ stage = "selected"
    /\ process_pdfs
    /\ step <= Len(ranked_arxiv)
    /\ \E o \in ProcessOutcomes :
          /\ o # AllSucceed => Failures < MaxFailures
          /\ arxiv_papers' = [arxiv_papers EXCEPT ![ranked_arxiv[step]] = process_paper(@, o)]
          /\ trace' = Append(trace, Called("process_paper",
                                           arxiv_papers[ranked_arxiv[step]].source,
                                           arxiv_papers[ranked_arxiv[step]].id, o))
    /\ step' = step + 1
    /\ UNCHANGED <<process_pdfs, raw_arxiv, raw_hf, stage, all_papers, hf_papers,
                   ranked_arxiv, summaries, report>>
    /\ UNCHANGED <<rankVars, scoreVars, filterVars, downloadVars, webVars>>

\* Stage 4 begins: summaries = self.summarizer.execute(selected_papers)
StartSummarizing ==
    /\ stage = "selected"
    /\ ~process_pdfs \/ step > Len(ranked_arxiv)
    /\ trace' = Append(trace, Called("summarizer.execute", "", 0, FALSE))
    /\ stage' = "summarizing"
    /\ step' = 1
    /\ UNCHANGED <<process_pdfs, raw_arxiv, raw_hf, all_papers, arxiv_papers, hf_papers,
                   ranked_arxiv, summaries, report>>
    /\ UNCHANGED <<rankVars, scoreVars, filterVars, downloadVars, webVars>>

\* A loop that leaves out the summary of a record whose summarizing failed.
SummarizePaper_DropFailed ==
    /\ stage = "summarizing"
    /\ step <= Len(SelectedPapers)
    /\ \E generated \in BOOLEAN :
          /\ ~generated => Failures < MaxFailures
          /\ summaries' = IF generated
                          THEN Append(summaries, summarize_paper(SelectedPapers[step], generated))
                          ELSE summaries
    /\ step' = step + 1
    /\ UNCHANGED <<process_pdfs, raw_arxiv, raw_hf, stage, all_papers, arxiv_papers,
                   hf_papers, ranked_arxiv, trace, report>>
    /\ UNCHANGED <<rankVars, scoreVars, filterVars, downloadVars, webVars>>

\* one iteration of summarize_papers' loop
SummarizePaper ==
    /\ stage = "summarizing"
    /\ step <= Len(SelectedPapers)
    /\ \E generated \in BOOLEAN :
          /\ ~generated => Failures < MaxFailures
          /\ summaries' = Append(summaries, summarize_paper(SelectedPapers[step], generated))
    /\ step' = step + 1
    /\ UNCHANGED <<process_pdfs, raw_arxiv, raw_hf, stage, all_papers, arxiv_papers,
                   hf_papers, ranked_arxiv, trace, report>>
    /\ UNCHANGED <<rankVars, scoreVars, filterVars, downloadVars, webVars>>

\* Stage 5: report = SummaryReport(...); return report
CreateReport ==
    /\ stage = "summarizing"
    /\ step > Len(SelectedPapers)
    /\ report' = SummaryReport(summaries)
    /\ stage' = "done"
    /\ UNCHANGED <<process_pdfs, raw_arxiv, raw_hf, all_papers, arxiv_papers, hf_papers,
                   ranked_arxiv, step, trace, summaries>>
    /\ UNCHANGED <<rankVars, scoreVars, filterVars, downloadVars, webVars>>

PipeNext ==
    \/ FetchArxiv
    \/ FetchHf
    \/ ReturnEmptyReport
    \/ RankArxiv
    \/ SkipRanking
    \/ ProcessPaper
    \/ StartSummarizing
    \/ SummarizePaper
    \/ CreateReport

-----------------------------------------------------------------------------
(* The web app: /api/fetch, run_pipeline_background, /api/status *)

MaxRequests == 3    \* POST /api/fetch requests in one run of the model

\* An entry of web_log: a request handled, or the end of background run i.
Event(op, i) == [op |-> op, run |-> i]

Requests == Len(SelectSeq(web_log, LAMBDA e : e.op \in {"fetch", "rejected"}))

\* The module's globals after import.
WebInit ==
    /\ is_running = FALSE
    /\ latest_report = None
    /\ tasks = <<>>
    /\ web_log = <<>>
    /\ status = None

\* POST /api/fetch. FilterConfig(...) raises on a form it does not accept and
\* the handler ends there; otherwise the task is added and the flag is set,
\* with no suspension point in between.
FetchPapers ==
    /\ Requests < MaxRequests
    /\ \E accepted \in BOOLEAN :
          IF accepted
          THEN /\ tasks' = Append(tasks, "queued")
               /\ is_running' = TRUE
               /\ web_log' = Append(web_log, Event("fetch", Len(tasks) + 1))
          ELSE /\ web_log' = Append(web_log, Event("rejected", 0))
               /\ UNCHANGED <<tasks, is_running>>
    /\ UNCHANGED <<latest_report, status>>
    /\ UNCHANGED <<rankVars, scoreVars, filterVars, downloadVars, pipeVars>>

\* The response is sent and the background task is entered: the run is now
\* inside `await pipeline.run(...)`, where other requests are served.
StartRun ==
    /\ \E i \in 1..Len(tasks) :
          /\ tasks[i] = "queued"
          /\ tasks' = [tasks EXCEPT ![i] = "running"]
    /\ UNCHANGED <<is_running, latest_report, web_log, status>>
    /\ UNCHANGED <<rankVars, scoreVars, filterVars, downloadVars, pipeVars>>

\* A background run that clears the flag only when it raises.
RunReturns_KeepFlag ==
    /\ \E i \in 1..Len(tasks) :
          /\ tasks[i] = "running"
          /\ tasks' = [tasks EXCEPT ![i] = "done"]
          /\ latest_report' = [run |-> i]
          /\ web_log' = Append(web_log, Event("end", i))
    /\ UNCHANGED <<is_running, status>>
    /\ UNCHANGED <<rankVars, scoreVars, filterVars, downloadVars, pipeVars>>

\* pipeline.run returns: latest_report = report, then the finally clause.
RunReturns ==
    /\ \E i \in 1..Len(tasks) :
          /\ tasks[i] = "running"
          /\ tasks' = [tasks EXCEPT ![i] = "done"]
          /\ latest_report' = [run |-> i]
          /\ web_log' = Append(web_log, Event("end", i))
    /\ is_running' = FALSE
    /\ UNCHANGED status
    /\ UNCHANGED <<rankVars, scoreVars, filterVars, downloadVars, pipeVars>>

\* A background run without the finally clause.
RunRaises_NoFinally ==
    /\ \E i \in 1..Len(tasks) :
          /\ tasks[i] = "running"
          /\ tasks' = [tasks EXCEPT ![i] = "failed"]
          /\ web_log' = Append(web_log, Event("end", i))
    /\ UNCHANGED <<is_running, latest_report, status>>
    /\ UNCHANGED <<rankVars, scoreVars, filterVars, downloadVars, pipeVars>>

\* PaperReviewPipeline(config) or pipeline.run raises: the except clause logs,
\* then the finally clause.
RunRaises ==
    /\ \E i \in 1..Len(tasks) :
          /\ tasks[i] = "running"
          /\ tasks' = [tasks EXCEPT ![i] = "failed"]
          /\ web_log' = Append(web_log, Event("end", i))
    /\ is_running' = FALSE
    /\ UNCHANGED <<latest_report, status>>
    /\ UNCHANGED <<rankVars, scoreVars, filterVars, downloadVars, pipeVars>>

\* GET /api/status
GetStatus ==
    /\ status' = [is_running |-> is_running, latest_report |-> latest_report]
    /\ UNCHANGED <<is_running, latest_report, tasks, web_log>>
    /\ UNCHANGED <<rankVars, scoreVars, filterVars, downloadVars, pipeVars>>

WebNext ==
    \/ FetchPapers
    \/ StartRun
    \/ RunReturns
    \/ RunRaises
    \/ GetStatus

-----------------------------------------------------------------------------
(* Properties of the ranker *)

Min(a, b) == IF a < b THEN a ELSE b

Range(s) == {s[k] : k \in 1..Len(s)}

InResult(k) == k \in Range(result)

NoDuplicates(s) == \A a, b \in 1..Len(s) : a # b => s[a] # s[b]

\* rank_papers itself was called (execute returns before it when
\* filter_config.novelty_enabled is false).
RankCalled == call.via = "rank_papers" \/ call.novelty_enabled

\* The call went past both early returns.
Ranked == RankCalled /\ enabled /\ Len(papers) > N

Disabled == ~enabled \/ (call.via = "execute" /\ ~call.novelty_enabled)

Total(k) == papers[k].novelty_score.total_score

Scored(k) == papers[k].novelty_score # None

ArxivRecords == {k \in 1..Len(papers) : papers[k].source = "arxiv"}

\* The scored records that the stable descending order puts before record k.
Ahead(k) ==
    {j \in 1..Len(papers) :
        /\ Scored(j)
        /\ \/ Total(j) > Total(k)
           \/ Total(j) = Total(k) /\ j < k}

\* C1 as stated: for every list and every top_n >= 1 the list returned by
\* rank_papers has at most min(top_n, len(records)) elements, all of them
\* records of the input, none twice.
C1_Original ==
    (pc = "done" /\ RankCalled /\ call.top_n >= 1) =>
        /\ Len(result) <= Min(call.top_n, Len(papers))
        /\ Range(result) \subseteq 1..Len(papers)
        /\ NoDuplicates(result)

\* C1 amended: with ranking enabled, for every list and every top_n >= 1 the
\* list returned by rank_papers has at most min(top_n, len(records)) elements;
\* enabled or not, its elements are records of the input, none twice.
C1_Bounded ==
    (pc = "done" /\ RankCalled /\ call.top_n >= 1) =>
        /\ enabled => Len(result) <= Min(call.top_n, Len(papers))
        /\ Range(result) \subseteq 1..Len(papers)
        /\ NoDuplicates(result)

C1_Witness ==
    /\ pc = "done" /\ RankCalled /\ enabled
    /\ call.top_n >= 1
    /\ Len(papers) > call.top_n
    /\ Cardinality(ArxivRecords) > call.top_n
    /\ Len(result) = call.top_n

\* C2: when ranking is disabled or the number of records is <= top_n, no
\* scoring call is made, no record gets a NoveltyScore, and the returned list
\* is the input list in its original order.
C2_FastPath ==
    (Disabled \/ Len(papers) <= call.top_n) =>
        /\ \A k \in 1..Len(papers) : calls[k] = 0 /\ ~Scored(k)
        /\ pc = "done" => result = Positions(papers)

C2_Witness ==
    /\ pc = "done" /\ RankCalled /\ enabled
    /\ Len(papers) >= 2
    /\ Len(papers) = call.top_n
    /\ result = Positions(papers)

\* C3: in a ranked output total_score is non-increasing along the list, and
\* two records of equal total_score keep their input order.
C3_SortedStable ==
    (pc = "done" /\ Ranked) =>
        \A a, b \in 1..Len(result) :
            a < b => /\ Total(result[a]) >= Total(result[b])
                     /\ Total(result[a]) = Total(result[b]) => result[a] < result[b]

C3_Witness ==
    /\ pc = "done" /\ Ranked
    /\ Len(result) >= 2
    /\ result[1] > 1
    /\ \E a, b \in 1..Len(result) : a < b /\ Total(result[a]) = Total(result[b])

\* C4 as stated: a record whose scoring failed is in the output with
\* total_score 5.0, whatever the batch size, top_n and the other scores.
C4_Original ==
    pc = "done" =>
        \A k \in failed : InResult(k) /\ Total(k) = Pt(Neutral)

\* C4 amended: a record whose scoring failed gets total_score 5.0 and takes
\* part in the sort; it is in the output exactly when fewer than n records
\* of the batch rank ahead of it (higher total_score, or equal total_score
\* and earlier in the input).
C4_Sentinel ==
    pc = "done" =>
        \A k \in failed :
            /\ Scored(k)
            /\ Total(k) = Pt(Neutral)
            /\ InResult(k) <=> Cardinality(Ahead(k)) < N

C4_Witness ==
    /\ pc = "done"
    /\ \E k \in failed : InResult(k)
    /\ \E k \in failed : ~InResult(k)
    /\ \E k \in 1..Len(papers) : Scored(k) /\ k \notin failed

\* C5 as stated: past the fast path every input record, whatever its source
\* tag, has a NoveltyScore when the sort step runs.
C5_Original ==
    (pc = "done" /\ Ranked) =>
        \A k \in 1..Len(papers) : Scored(k)

\* C5 amended: past the fast path every repository-source (arxiv) record gets
\* a NoveltyScore, real or sentinel, from exactly one scoring call and is a
\* candidate of the sort step; a record of another source gets no score, is
\* not a candidate and is not returned.
C5_ArxivScored ==
    (pc = "done" /\ Ranked) =>
        \A k \in 1..Len(papers) :
            IF papers[k].source = "arxiv"
            THEN /\ Scored(k)
                 /\ calls[k] = 1
                 /\ InResult(k) <=> Cardinality(Ahead(k)) < N
            ELSE ~Scored(k) /\ calls[k] = 0 /\ ~InResult(k)

C5_Witness ==
    /\ pc = "done" /\ Ranked
    /\ \E k \in ArxivRecords : k \in failed /\ InResult(k)
    /\ \E k \in 1..Len(papers) : papers[k].source = "huggingface"

\* C24: in a ranking pass that does not take the fast path the scoring
\* procedure is invoked exactly once per repository-source record, in input
\* order, never twice and never skipped, and the sort and truncation are
\* applied only after every one of those invocations has settled with a score
\* attached: nothing is returned while the loop runs.
C24_ScoredOnceBeforeSort ==
    Ranked =>
        /\ \A k \in ArxivRecords : calls[k] <= 1 /\ (calls[k] = 1 <=> Scored(k))
        /\ pc = "scoring" =>
              /\ result = <<>>
              /\ \A k \in ArxivRecords : calls[k] = 1 <=> k < idx
        /\ pc = "done" =>
              /\ \A k \in ArxivRecords : calls[k] = 1 /\ Scored(k)
              /\ result = TopPapers(papers, N)

C24_Witness ==
    /\ pc = "done" /\ Ranked
    /\ Cardinality(ArxivRecords) >= 2
    /\ failed # {}
    /\ Len(result) < Cardinality(ArxivRecords)

\* C30: ranking is idempotent on its own output: applying rank_papers with the
\* same top_n to the list it returned makes no scoring call (the second call
\* never enters the scoring loop) and gives back that same list, in the same
\* order, its scores untouched.
C30_IdempotentOnOutput ==
    /\ call.via = "rank_papers_again" =>
          /\ pc \in {"start", "done"}
          /\ \A k \in 1..Len(papers) : calls[k] = 0
          /\ pc = "start" => ENABLED (ReturnDisabled \/ ReturnNoFiltering)
          /\ pc = "done" => result = Positions(papers)
    /\ (pc = "done" /\ call.via = "rank_papers") =>
          Len(Returned) <= N \/ ~enabled

C30_Witness ==
    /\ call.via = "rank_papers_again"
    /\ pc = "done"
    /\ enabled
    /\ Len(papers) = N
    /\ \E j, k \in 1..Len(papers) :
          /\ papers[j].novelty_score # None
          /\ papers[k].novelty_score # None
          /\ papers[j].novelty_score.total_score # papers[k].novelty_score.total_score

\* C7: every NoveltyScore attached to a record has its four numeric fields
\* within [1, 10], whatever numbers the reply contains.
C7_InRange ==
    \A k \in 1..Len(papers) :
        Scored(k) =>
            \A f \in {"total_score", "novelty", "impact", "clarity"} :
                /\ papers[k].novelty_score[f] >= Pt(1)
                /\ papers[k].novelty_score[f] <= Pt(10)

\* C8 as stated: with ranking enabled and more than top_n records given, the
\* output has exactly top_n records, however many scoring calls fail.
C8_Original ==
    (pc = "done" /\ RankCalled /\ enabled /\ call.top_n >= 1
        /\ Len(papers) > call.top_n) =>
        Len(result) = call.top_n

\* C8 amended: with ranking enabled and more than top_n records given, the
\* output has exactly min(top_n, number of repository-source records given)
\* records, however many scoring calls fail; that is exactly top_n when more
\* than top_n of the records are repository-source records.
C8_ExactCount ==
    (pc = "done" /\ RankCalled /\ enabled /\ call.top_n >= 1
        /\ Len(papers) > call.top_n) =>
        Len(result) = Min(call.top_n, Cardinality(ArxivRecords))

C8_Witness ==
    /\ pc = "done" /\ RankCalled /\ enabled
    /\ call.top_n >= 1
    /\ Len(papers) > call.top_n
    /\ Cardinality(failed) >= 2
    /\ Len(result) = call.top_n

-----------------------------------------------------------------------------
(* Properties of _score_paper *)

\* The reply makes the scoring procedure fail.
ReplyUnusable(r) ==
    \/ r.kind \in {"raise", "unparsable", "nonobject"}
    \/ NonNum \in {r.novelty, r.impact, r.clarity}
    \/ r.reasoning = "other"

\* C6: total_score is the mean of the three stored sub-scores, whatever total
\* the reply supplies, and on failure all four numeric fields are 5.0.
C6_MeanOfStored ==
    sp_score # None =>
        /\ sp_score.total_score * Three
               = sp_score.novelty + sp_score.impact + sp_score.clarity
        /\ ReplyUnusable(sp_resp) =>
               /\ sp_score.total_score = Pt(Neutral)
               /\ sp_score.novelty = Pt(Neutral)
               /\ sp_score.impact = Pt(Neutral)
               /\ sp_score.clarity = Pt(Neutral)

C6_Witness ==
    /\ sp_score # None
    /\ ~ReplyUnusable(sp_resp)
    /\ sp_resp.total = Num(10)
    /\ sp_resp.novelty = Num(8)
    /\ sp_score.total_score # Pt(10)

\* The reply is a JSON object whose sub-score fields are each absent or a
\* number, and whose reasoning is absent or a string.
PartiallyFilled(r) ==
    /\ r.kind = "object"
    /\ NonNum \notin {r.novelty, r.impact, r.clarity}
    /\ r.reasoning # "other"

Stored(field) == IF field = Missing THEN Pt(Neutral) ELSE Pt(field.v)

\* C21: for a reply that parses as a JSON object with any subset of the
\* fields novelty, impact, clarity missing, scoring does not fail: each missing
\* sub-score is 5.0, each supplied sub-score is kept as supplied, and
\* total_score is the mean of the three resulting values.
C21_MissingDefaultsToNeutral ==
    (sp_score # None /\ PartiallyFilled(sp_resp)) =>
        /\ sp_score.reasoning # "Error"
        /\ sp_score.novelty = Stored(sp_resp.novelty)
        /\ sp_score.impact = Stored(sp_resp.impact)
        /\ sp_score.clarity = Stored(sp_resp.clarity)
        /\ sp_score.total_score * Three
               = Stored(sp_resp.novelty) + Stored(sp_resp.impact) + Stored(sp_resp.clarity)

C21_Witness ==
    /\ sp_score # None
    /\ PartiallyFilled(sp_resp)
    /\ sp_resp.novelty = Missing /\ sp_resp.clarity = Missing
    /\ sp_resp.impact = Num(8)
    /\ sp_score.novelty = Pt(Neutral)
    /\ sp_score.impact = Pt(8)
    /\ sp_score.total_score = Pt(6)

-----------------------------------------------------------------------------
(* Properties of the filters and of FilterConfig *)

\* The criterion list and mode that apply to the record's adapter.
Criteria == IF paper.source = "arxiv" THEN fc.arxiv_categories ELSE fc.hf_keywords

Mode == IF paper.source = "arxiv" THEN fc.arxiv_filter_mode ELSE fc.hf_filter_mode

\* The record gets as far as the category / keyword filter: its published
\* instant is comparable and inside the window, and it meets the upvote floor.
ReachesCriteria ==
    /\ ~paper.published.aware
    /\ get_date_range(fc, now).start_date <= paper.published.tick
    /\ paper.published.tick <= get_date_range(fc, now).end_date
    /\ paper.source = "huggingface" => paper.upvotes >= fc.hf_min_upvotes

ScenarioRecords == {{"cs.CV"}, {"cs.AI"}, {"cs.LG"}}

\* C9: a record that reaches the category (arxiv) or keyword (huggingface)
\* filter passes in AND mode iff every criterion value is in its set, in OR
\* mode iff at least one is, and always when the criterion list is empty; of
\* the records {cs.CV}, {cs.AI}, {cs.LG} under [cs.CV, cs.LG], OR passes 2
\* and AND passes 0.
C9_AndOrFilter ==
    (fpc = "filtered" /\ ReachesCriteria) =>
        /\ passed \in {"True", "False"}
        /\ passed = "True" <=>
              \/ Criteria = <<>>
              \/ Mode = "AND" /\ \A k \in 1..Len(Criteria) : Criteria[k] \in paper.tags
              \/ Mode = "OR" /\ \E k \in 1..Len(Criteria) : Criteria[k] \in paper.tags
        /\ (paper.source = "arxiv" /\ Criteria = <<"cs.CV", "cs.LG">>) =>
              Cardinality({tg \in ScenarioRecords :
                  Arxiv_apply_filters([paper EXCEPT !.tags = tg], fc, now) = "True"})
                  = IF Mode = "OR" THEN 2 ELSE 0

C9_Witness ==
    /\ fpc = "filtered" /\ ReachesCriteria
    /\ paper.source = "arxiv"
    /\ Criteria = <<"cs.CV", "cs.LG">>
    /\ Mode = "AND"
    /\ paper.tags = {"cs.CV"}
    /\ passed = "False"

\* C10: FilterConfig(...) with an empty sources list fails validation; no
\* FilterConfig object has an empty sources list.
C10_SourcesNonEmpty ==
    /\ fc # None => fc.sources # <<>>
    /\ (fpc # "new" /\ args.sources = <<>>) => (fpc = "ValidationError" /\ fc = None)

C10_Witness ==
    /\ fpc = "ValidationError"
    /\ args.sources = <<>>
    /\ args.days_back >= 1
    /\ args.arxiv_filter_mode \in FilterModes
    /\ fc = None

\* C11: for every FilterConfig that passes validation, the window returned by
\* get_date_range satisfies from <= to.
C11_WindowOrdered ==
    fpc = "resolved" => date_range.start_date <= date_range.end_date

\* The first and the last instant of a day.
StartOfDay(d) == d * TicksPerDay
EndOfDay(d) == (d + 1) * TicksPerDay - 1

\* C22: get_date_range resolves each bound independently: the lower bound is
\* date_from (start of day) when date_from is set and now minus days_back only
\* when it is unset; the upper bound is date_to (end of day) when date_to is
\* set and now only when it is unset; days_back never influences a bound that
\* was given explicitly.
C22_BoundsResolvedIndependently ==
    fpc = "resolved" =>
        /\ fc.date_from # NoDate => date_range.start_date = StartOfDay(fc.date_from[1])
        /\ fc.date_from = NoDate =>
               date_range.start_date + fc.days_back * TicksPerDay = now
        /\ fc.date_to # NoDate => date_range.end_date = EndOfDay(fc.date_to[1])
        /\ fc.date_to = NoDate => date_range.end_date = now

C22_Witness ==
    /\ fpc = "resolved"
    /\ fc.date_from # NoDate /\ fc.date_to = NoDate
    /\ fc.days_back = MaxDaysBack
    /\ date_range.start_date = StartOfDay(fc.date_from[1])
    /\ date_range.end_date = now

-----------------------------------------------------------------------------
(* Properties of download_pdf *)

\* Two download_pdf calls made one after the other for the same record.
TwiceInSequence == {i \in 1..(Len(dl_log) - 1) : dl_log[i].id = dl_log[i + 1].id}

Fetches(i) == IF dl_log[i].fetched THEN 1 ELSE 0

\* C14 as stated: calling download_pdf twice in sequence for the same paper
\* identifier and destination directory returns the same file path both times
\* and invokes the remote fetch exactly once.
C14_Original ==
    \A i \in TwiceInSequence :
        /\ dl_log[i].ret = FilePath(dl_log[i].id)
        /\ dl_log[i + 1].ret = dl_log[i].ret
        /\ Fetches(i) + Fetches(i + 1) = 1

\* C14 amended: when the first of two download_pdf calls made in sequence for
\* the same paper identifier and destination directory returns, the second
\* returns the same file path and makes no remote fetch; the first call
\* fetches exactly when no file was at the path before it, so the two calls
\* together fetch once then, and not at all when a file was already there.
C14_Idempotent ==
    \A i \in TwiceInSequence :
        dl_log[i].ret # Raised =>
            /\ dl_log[i].ret = FilePath(dl_log[i].id)
            /\ dl_log[i + 1].ret = dl_log[i].ret
            /\ ~dl_log[i + 1].fetched
            /\ dl_log[i].fetched <=> dl_log[i].entry = "absent"
            /\ Fetches(i) + Fetches(i + 1) = (IF dl_log[i].entry = "absent" THEN 1 ELSE 0)

C14_Witness ==
    /\ Len(dl_log) >= 2
    /\ dl_log[1].id = dl_log[2].id
    /\ dl_log[1].entry = "absent"
    /\ dl_log[1].fetched
    /\ dl_log[1].ret = FilePath(dl_log[1].id)
    /\ dl_log[2].ret = dl_log[1].ret
    /\ ~dl_log[2].fetched

\* A call that returned the path without fetching.
ShortCircuited(c) == ~c.fetched /\ c.ret # Raised

\* C25: download_pdf treats a file at the target path as an existing complete
\* PDF only if some download of that paper ran to completion: after a download
\* that was interrupted mid-write it does not short-circuit and return the
\* partial file.
C25_PartialNeverReturned ==
    \A j \in 1..Len(dl_log) :
        ShortCircuited(dl_log[j]) => dl_log[j].entry = "complete"

-----------------------------------------------------------------------------
(* Properties of PaperReviewPipeline.run *)

CalledOps(op) == SelectSeq(trace, LAMBDA e : e.op = op)

WasCalled(op) == CalledOps(op) # <<>>

InSources(name) == name \in ToSet(fc.sources)

\* The records fetch_metadata_only is to return: those of the batch that the
\* conversion accepts and the filters pass.
Convertible(i) ==
    /\ raw_arxiv[i].conv = "ok"
    /\ Arxiv_apply_filters(to_paper_metadata(raw_arxiv[i]), fc, now) = "True"

Throws(i) == raw_arxiv[i].conv = "raises" \/ raw_arxiv[i].published.aware

Ids(ps) == [j \in 1..Len(ps) |-> ps[j].id]

\* The summaries of a report tell the records they were made from.
SummaryOf(s, p) == s.paper_id = p.id /\ s.source = p.source

\* C12: if the listing-source network call fails (timeout, HTTP error, bad
\* body), fetch_daily_papers returns an empty list without raising, run still
\* completes with a report whose listing count is 0, and the repository
\* records and count in that report are the same as if the listing source had
\* returned no entries.
C12_ListingFailureTolerated ==
    (WasCalled("fetch_daily_papers") /\ raw_hf.kind # "ok") =>
        /\ ~CalledOps("fetch_daily_papers")[1].outcome
        /\ stage # "raised"
        /\ stage # "done" => ENABLED PipeNext
        /\ all_papers = fetch_metadata_only(raw_arxiv, fc, now).papers
                        \o fetch_daily_papers([kind |-> "ok", entries |-> <<>>], fc, now).papers
        /\ stage \in {"selected", "summarizing", "done"} => hf_papers = <<>>
        /\ stage = "done" =>
              /\ report.huggingface_count = 0
              /\ report.arxiv_count = Len(ranked_arxiv)
              /\ Len(report.summaries) = Len(ranked_arxiv)
              /\ \A j \in 1..Len(ranked_arxiv) :
                    SummaryOf(report.summaries[j], RankedArxiv[j])

C12_Witness ==
    /\ stage = "done"
    /\ WasCalled("fetch_daily_papers")
    /\ raw_hf.kind = "HTTPError"
    /\ report.huggingface_count = 0
    /\ report.arxiv_count >= 1

\* C13: in fetch_metadata_only a raw record whose conversion to PaperMetadata
\* (or whose filtering) throws is skipped: the call does not raise, the
\* remaining records of the batch are still converted, filtered and returned,
\* and the pipeline run is not aborted.
C13_ThrowingRecordSkipped ==
    (WasCalled("fetch_metadata_only") /\ \E i \in 1..Len(raw_arxiv) : Throws(i)) =>
        /\ ~CalledOps("fetch_metadata_only")[1].outcome
        /\ stage # "raised"
        /\ Ids(ArxivPartition(all_papers))
              = SelectSeq(Positions(raw_arxiv), LAMBDA i : Convertible(i))

\* C15: process_paper never raises and never discards its record: whichever
\* step fails (lookup, download, text extraction, image extraction), it
\* returns the same record with every artifact attached before the failure
\* still present, and that record is still summarized and counted in the
\* run's report.
C15_ProcessKeepsRecord ==
    \A j \in 1..Len(trace) :
        trace[j].op = "process_paper" =>
            LET o == trace[j].outcome
                kept == SelectSeq(RankedArxiv, LAMBDA p : p.id = trace[j].id)
            IN /\ stage # "raised"
               /\ Len(kept) = 1
               /\ kept[1].source = "arxiv"
               /\ (o.lookup = "found" /\ o.download = "ok") =>
                     /\ kept[1].pdf_path = FilePath(kept[1].id)
                     /\ kept[1].full_text = (IF o.text = "ok" THEN "text" ELSE "")
               /\ (o.lookup = "found" /\ o.download = "ok" /\ o.images = "ok") =>
                     kept[1].image_paths = <<"image">>
               /\ stage = "done" =>
                     /\ \E s \in 1..Len(report.summaries) :
                           /\ SummaryOf(report.summaries[s], kept[1])
                           /\ report.summaries[s].image_paths = kept[1].image_paths
                     /\ report.arxiv_count = Len(ranked_arxiv)
                     /\ report.total_papers = Len(SelectedPapers)

C15_Witness ==
    /\ stage = "done"
    /\ \E j \in 1..Len(trace) :
          /\ trace[j].op = "process_paper"
          /\ trace[j].outcome.images = "raises"
          /\ \E s \in 1..Len(report.summaries) :
                /\ report.summaries[s].paper_id = trace[j].id
                /\ report.summaries[s].source = "arxiv"
          /\ \E k \in 1..Len(arxiv_papers) :
                /\ arxiv_papers[k].id = trace[j].id
                /\ arxiv_papers[k].pdf_path # None
                /\ arxiv_papers[k].full_text = "text"

\* C16: every listing-source record returned by the fetch stage reaches the
\* report, in fetch order, placed after all repository-source records, with no
\* NoveltyScore and no document artifacts attached; ranking can only shrink
\* the repository partition and never changes the number or order of listing
\* records.
C16_ListingRecordsUntouched ==
    (stage \in {"selected", "summarizing", "done"} /\ all_papers # <<>>) =>
        /\ hf_papers = HfPartition(all_papers)
        /\ \A j \in 1..Len(hf_papers) :
              /\ hf_papers[j].novelty_score = None
              /\ hf_papers[j].pdf_path = None
              /\ hf_papers[j].full_text = None
              /\ hf_papers[j].image_paths = <<>>
        /\ Ids(arxiv_papers) = Ids(ArxivPartition(all_papers))
        /\ Range(ranked_arxiv) \subseteq 1..Len(arxiv_papers)
        /\ NoDuplicates(ranked_arxiv)
        /\ stage = "done" =>
              /\ Len(report.summaries) = Len(ranked_arxiv) + Len(hf_papers)
              /\ report.huggingface_count = Len(HfPartition(all_papers))
              /\ \A j \in 1..Len(ranked_arxiv) : report.summaries[j].source = "arxiv"
              /\ \A j \in 1..Len(hf_papers) :
                    /\ SummaryOf(report.summaries[Len(ranked_arxiv) + j],
                                 HfPartition(all_papers)[j])
                    /\ report.summaries[Len(ranked_arxiv) + j].image_paths = <<>>

C16_Witness ==
    /\ stage = "done"
    /\ Len(HfPartition(all_papers)) >= 2
    /\ Len(ranked_arxiv) >= 1
    /\ Len(ranked_arxiv) < Len(ArxivPartition(all_papers))
    /\ report.huggingface_count = Len(HfPartition(all_papers))

\* C17: if the merged fetch result of all enabled sources is empty, run
\* returns a report with total_papers = 0, both per-source counts 0 and no
\* summaries, and no ranking, content-processing or summarization call is made
\* in that run.
C17_EmptyFetchShortCircuits ==
    (all_papers = <<>> /\ stage \notin {"start", "fetch_hf", "raised"}) =>
        /\ stage \in {"fetched", "done"}
        /\ ~WasCalled("execute")
        /\ ~WasCalled("process_paper")
        /\ ~WasCalled("summarizer.execute")
        /\ summaries = <<>>
        /\ stage = "done" =>
              /\ report.total_papers = 0
              /\ report.arxiv_count = 0
              /\ report.huggingface_count = 0
              /\ report.summaries = <<>>

C17_Witness ==
    /\ stage = "done"
    /\ all_papers = <<>>
    /\ WasCalled("fetch_metadata_only")
    /\ WasCalled("fetch_daily_papers")
    /\ raw_hf.kind = "ok" /\ raw_hf.entries # <<>>
    /\ report = EmptyReport

\* C18: every SummaryReport returned by run satisfies total_papers =
\* arxiv_count + huggingface_count = number of summaries = number of selected
\* records (ranked repository records plus all listing records): the
\* summarization stage yields exactly one summary per selected record, in the
\* same order, also when summarizing a record fails.
C18_OneSummaryPerSelected ==
    stage = "done" =>
        /\ report.total_papers = report.arxiv_count + report.huggingface_count
        /\ report.total_papers = Len(report.summaries)
        /\ report.total_papers = Len(ranked_arxiv) + Len(hf_papers)
        /\ report.arxiv_count = Len(ranked_arxiv)
        /\ report.huggingface_count = Len(hf_papers)
        /\ \A j \in 1..Len(report.summaries) :
              SummaryOf(report.summaries[j], (RankedArxiv \o hf_papers)[j])

C18_Witness ==
    /\ stage = "done"
    /\ report.arxiv_count >= 1
    /\ report.huggingface_count >= 1
    /\ \E j \in 1..Len(report.summaries) :
          report.summaries[j].summary = "Error creating summary"
    /\ report.total_papers = Len(SelectedPapers)

\* Positions of the calls of an operation in the trace.
CallsAt(op) == {j \in 1..Len(trace) : trace[j].op = op}

\* C19: process_paper is invoked exactly once for each record of the ranked
\* repository partition when process_pdfs is true, only after ranking has
\* finished and before summarization starts; it is never invoked for a
\* listing-source record, for a record dropped by ranking, or at all when
\* process_pdfs is false.
C19_ProcessedOnceAfterRanking ==
    /\ \A j \in CallsAt("process_paper") :
          /\ process_pdfs
          /\ trace[j].source = "arxiv"
          /\ \E r \in 1..Len(RankedArxiv) : RankedArxiv[r].id = trace[j].id
          /\ \A e \in CallsAt("execute") : e < j
          /\ \A e \in CallsAt("summarizer.execute") : j < e
          /\ \A e \in CallsAt("process_paper") : trace[e].id = trace[j].id => e = j
    /\ (process_pdfs /\ stage \in {"summarizing", "done"}) =>
          \A r \in 1..Len(RankedArxiv) :
              \E j \in CallsAt("process_paper") : trace[j].id = RankedArxiv[r].id

C19_Witness ==
    /\ stage = "done"
    /\ process_pdfs
    /\ WasCalled("execute")
    /\ Len(ranked_arxiv) >= 1
    /\ Len(ranked_arxiv) < Len(arxiv_papers)
    /\ hf_papers # <<>>
    /\ Cardinality(CallsAt("process_paper")) = Len(ranked_arxiv)

\* The ranking stage of the run is over.
PastRanking == stage \in {"selected", "summarizing", "done"}

\* C26: when FilterConfig.novelty_min_score is set, every record selected by
\* the ranking stage of a run has total_score >= novelty_min_score.
C26_FloorEnforced ==
    (PastRanking /\ WasCalled("execute") /\ fc.novelty_min_score # NoFloor) =>
        \A j \in 1..Len(RankedArxiv) :
            RankedArxiv[j].novelty_score # None =>
                RankedArxiv[j].novelty_score.total_score >= fc.novelty_min_score[1]

\* C27 as stated: whenever a run completes with novelty_enabled = true the
\* report has at most novelty_top_n repository-source records, for every
\* pipeline configuration.
C27_Original ==
    (stage = "done" /\ fc.novelty_enabled) =>
        report.arxiv_count <= fc.novelty_top_n

\* C27 amended: whenever a run completes with novelty_enabled = true, the
\* report has at most novelty_top_n repository-source records if the
\* pipeline's configuration leaves novelty_filter.enabled true, and all the
\* fetched repository-source records if it sets novelty_filter.enabled false.
C27_TopNUnlessRankerDisabled ==
    (stage = "done" /\ fc.novelty_enabled) =>
        IF enabled
        THEN report.arxiv_count <= fc.novelty_top_n
        ELSE report.arxiv_count = Len(ArxivPartition(all_papers))

C27_Witness ==
    /\ stage = "done" /\ fc.novelty_enabled /\ enabled
    /\ Len(ArxivPartition(all_papers)) > fc.novelty_top_n
    /\ report.arxiv_count = fc.novelty_top_n

-----------------------------------------------------------------------------
(* Properties of fetch_daily_papers *)

\* Entry i of the listing body parses and passes the filters without error.
EntryGood(i) ==
    /\ raw_hf.entries[i].parse = "ok"
    /\ ~raw_hf.entries[i].published.aware
    /\ HuggingFace_apply_filters(HfMetadata(raw_hf.entries[i]), fc, now) = "True"

\* C23: in fetch_daily_papers an error confined to one entry of the response
\* (raised while parsing or while filtering that entry) drops only that entry:
\* every other entry of the same response that parses and passes the filters
\* is still returned (up to hf_max_papers of them).
C23_EntryErrorDropsOnlyEntry ==
    (stage = "returned" /\ raw_hf.kind = "ok" /\ InSources("huggingface")) =>
        Ids(hf_papers)
           = Prefix(SelectSeq(Positions(raw_hf.entries), LAMBDA i : EntryGood(i)),
                    fc.hf_max_papers)

-----------------------------------------------------------------------------
(* Properties of the web app *)

Running == {i \in 1..Len(tasks) : tasks[i] = "running"}

Ended == {i \in 1..Len(tasks) : tasks[i] \in {"done", "failed"}}

\* The last request accepted or run ended, if any.
LastEvents == SelectSeq(web_log, LAMBDA e : e.op \in {"fetch", "end"})

\* C28 as stated: is_running is true in every state in which at least one
\* background run started by POST /api/fetch has not yet finished, for every
\* interleaving of several requests and their runs.
C28_Original ==
    Running # {} => is_running

\* C28 amended: is_running is true exactly from an accepted POST /api/fetch
\* until the next end of any background run. It is therefore true in every
\* state in which a run has not yet finished and no run has ended since the
\* most recent accepted request, as when runs do not overlap; when several
\* runs overlap, the first of them to end sets the flag to false while the
\* others are still running.
C28_TrueUntilARunEnds ==
    /\ is_running <=>
          (LastEvents # <<>> /\ LastEvents[Len(LastEvents)].op = "fetch")
    /\ (is_running /\ LastEvents # <<>>) =>
          tasks[LastEvents[Len(LastEvents)].run] \in {"queued", "running"}
    /\ (Len(tasks) = 1 /\ tasks[1] \in {"queued", "running"}) => is_running

C28_Witness ==
    /\ is_running
    /\ Cardinality(Running) >= 2
    /\ Ended # {}

\* Background run i ends in this step.
RunEnds(i) == tasks[i] = "running" /\ tasks'[i] \in {"done", "failed"}

\* C29: after POST /api/fetch has set is_running to true, is_running becomes
\* false once the started background run terminates, whether the run succeeds
\* or raises: the step that ends a run leaves is_running false, a run that
\* raises leaves latest_report unchanged, and, every started run terminating,
\* a true is_running is always followed by a false one.
C29_FlagClearedWhenRunEnds ==
    /\ [][\A i \in 1..Len(tasks) :
             RunEnds(i) =>
                 /\ is_running' = FALSE
                 /\ tasks'[i] = "failed" => latest_report' = latest_report]_vars
    /\ (is_running ~> ~is_running)

C29_Witness ==
    /\ ~is_running
    /\ latest_report # None
    /\ \E i \in 1..Len(tasks) :
          /\ tasks[i] = "failed"
          /\ web_log[Len(web_log)] = Event("end", i)
          /\ latest_report.run < i

-----------------------------------------------------------------------------
(* Failures inside the scoring loop *)

\* C20: the single-record scoring procedure never raises past its caller: for
\* every failure (request failure, timeout, malformed JSON, non-object JSON,
\* non-numeric or null fields) it yields the sentinel score, and a failure on
\* one record leaves the scores of all other records of the batch identical to
\* what they would be without that failure, with all later records still
\* scored.
C20_FailureIsolated ==
    /\ [](\A k \in failed : Scored(k) /\ papers[k].novelty_score = ErrorScore)
    /\ []((pc = "done" /\ Ranked) => \A k \in ArxivRecords : Scored(k))
    /\ [][(pc = "scoring" /\ idx' = idx + 1) =>
             /\ pc' = "scoring"
             /\ \A k \in 1..Len(papers) : k # idx => papers'[k] = papers[k]]_vars

C20_Witness ==
    /\ pc = "done" /\ Ranked
    /\ \E k \in failed :
          /\ papers[k].novelty_score = ErrorScore
          /\ \E j \in ArxivRecords :
                /\ j > k
                /\ j \notin failed
                /\ Scored(j)
                /\ papers[j].novelty_score.reasoning = ""

-----------------------------------------------------------------------------
(* Specifications *)

RankIdle ==
    /\ enabled = TRUE
    /\ top_papers_count = 1
    /\ call = [via |-> "rank_papers", top_n |-> 0, novelty_enabled |-> TRUE]
    /\ papers = <<>>
    /\ pc = "idle"
    /\ idx = 0
    /\ calls = <<>>
    /\ failed = {}
    /\ result = <<>>

FilterIdle ==
    /\ args = None
    /\ fc = None
    /\ now = 0
    /\ paper = None
    /\ fpc = "idle"
    /\ passed = "None"
    /\ date_range = None

DownloadIdle ==
    /\ dl_file = <<>>
    /\ dl_call = None
    /\ dl_log = <<>>

PipeIdle ==
    /\ process_pdfs = FALSE
    /\ raw_arxiv = <<>>
    /\ raw_hf = <<>>
    /\ stage = "idle"
    /\ all_papers = <<>>
    /\ arxiv_papers = <<>>
    /\ hf_papers = <<>>
    /\ ranked_arxiv = <<>>
    /\ step = 0
    /\ trace = <<>>
    /\ summaries = <<>>
    /\ report = None

WebIdle == WebInit

InitRank == RankInit /\ ScoreIdle /\ FilterIdle /\ DownloadIdle /\ PipeIdle /\ WebIdle

SpecRank == InitRank /\ [][RankNext]_vars

InitScore == ScoreInit /\ RankIdle /\ FilterIdle /\ DownloadIdle /\ PipeIdle /\ WebIdle

SpecScore == InitScore /\ [][ScorePaper]_vars

InitFilter == FilterInit /\ RankIdle /\ ScoreIdle /\ DownloadIdle /\ PipeIdle /\ WebIdle

SpecFilter == InitFilter /\ [][FilterNext]_vars

InitConfig == ConfigInit /\ RankIdle /\ ScoreIdle /\ DownloadIdle /\ PipeIdle /\ WebIdle

SpecConfig == InitConfig /\ [][ConfigNext]_vars

InitDownload == DownloadInit /\ RankIdle /\ ScoreIdle /\ FilterIdle /\ PipeIdle /\ WebIdle

SpecDownload == InitDownload /\ [][DownloadNext]_vars

InitPipeline == PipeInit /\ ScoreIdle /\ DownloadIdle /\ WebIdle

SpecPipeline == InitPipeline /\ [][PipeNext]_vars

InitListing == ListingInit /\ RankIdle /\ ScoreIdle /\ DownloadIdle /\ WebIdle

SpecListing == InitListing /\ [][ListingNext]_vars

InitWeb == WebInit /\ RankIdle /\ ScoreIdle /\ FilterIdle /\ DownloadIdle /\ PipeIdle

SpecWeb == InitWeb /\ [][WebNext]_vars

\* The event loop runs every task it was given, and a run that was entered
\* returns or raises (its network and model calls are bounded by timeouts).
SpecWebLive ==
    /\ InitWeb
    /\ [][WebNext]_vars
    /\ WF_vars(StartRun)
    /\ WF_vars(RunReturns \/ RunRaises)

InitRerank == RerankInit /\ ScoreIdle /\ FilterIdle /\ DownloadIdle /\ PipeIdle /\ WebIdle

SpecRerank == InitRerank /\ [][RerankNext]_vars

====
